---- MODULE Spec2Model ----
(***************************************************************************)
(* A model of the websocket RPC client of SurrealPy:                       *)
(*   surrealpy/ws/__init__.py  SurrealClient, SurrealClientThread          *)
(*   surrealpy/ws/event.py     _EventManager                               *)
(*   surrealpy/exceptions.py   SurrealQLSyntaxError, WebSocketError        *)
(*   surrealpy/ws/models.py    SurrealRequest, SurrealResponse             *)
(*                                                                         *)
(* Spec       : caller threads, the receive thread of SurrealClientThread, *)
(*              the websocket and the server behind it.                    *)
(* LifeSpec   : one caller and longer connect/disconnect sequences.        *)
(* SyntaxSpec : one caller, every operation and every error message.       *)
(* FairSpec   : callers that query, with weak fairness on every thread.    *)
(* EventSpec  : the event manager: registry, event queue, dispatch thread. *)
(***************************************************************************)
EXTENDS Integers, Sequences, FiniteSets, Bags, TLC

(***************************************************************************)
(* Bounds of the model.                                                    *)
(***************************************************************************)
NumCallers == 2
MaxRequests == 2
MaxJunk == 1
\* connect() and disconnect() calls in Spec, and in LifeSpec
MaxCalls == 2
MaxLifeCalls == 3
\* emit() calls, and add_event/remove_event/clear calls, in EventSpec
MaxEmits == 2
MaxRegistryCalls == 3

Callers == 1..NumCallers

(***************************************************************************)
(* Program constants.                                                      *)
(***************************************************************************)
SyntaxErrorCode == -32000
ErrorCodes == {SyntaxErrorCode, -32603}
OtherErrorCode == CHOOSE c \in ErrorCodes : c # SyntaxErrorCode

\* Python's None where the other values are strings
None == "None"
\* Python's None where the other values are numbers or text: Absent, or <<v>>
Absent == << >>
Some(v) == <<v>>
\* no "id" key in a frame
NoId == 0
\* the id "-1" of the events that belong to no request
SentinelId == -1

(***************************************************************************)
(* Text.  A Python str is modelled as a sequence of one-character strings. *)
(***************************************************************************)
DigitChars == <<"0", "1", "2", "3", "4", "5", "6", "7", "8", "9">>

IsDigit(c) == \E d \in 1..10 : DigitChars[d] = c

DigitValue(c) == (CHOOSE d \in 1..10 : DigitChars[d] = c) - 1

\* int(s) for a non-empty string of decimal digits
RECURSIVE ParseInt(_)
ParseInt(s) ==
    IF Len(s) = 0 THEN 0
    ELSE 10 * ParseInt(SubSeq(s, 1, Len(s) - 1)) + DigitValue(s[Len(s)])

\* str(n) for n >= 0
RECURSIVE FormatInt(_)
FormatInt(n) ==
    IF n < 10 THEN <<DigitChars[n + 1]>>
    ELSE FormatInt(n \div 10) \o <<DigitChars[(n % 10) + 1]>>

LitLine == <<"l", "i", "n", "e", " ">>
LitAtCharacter == <<" ", "a", "t", " ", "c", "h", "a", "r", "a", "c", "t", "e", "r", " ">>

\* s has the literal lit at position i
HasLiteralAt(s, i, lit) ==
    /\ i + Len(lit) - 1 <= Len(s)
    /\ \A k \in 1..Len(lit) : s[i + k - 1] = lit[k]

\* length of the longest run of digits of s that starts at position i (greedy \d+)
RECURSIVE DigitRun(_, _)
DigitRun(s, i) ==
    IF i <= Len(s) /\ IsDigit(s[i]) THEN 1 + DigitRun(s, i + 1) ELSE 0

\* r"line (\d+) at character (\d+)" matched at position i: the two groups, or Absent.
\* The literal after the first group starts with a blank, so the greedy run is
\* the only candidate for group 1.
RegexMatchAt(s, i) ==
    IF ~HasLiteralAt(s, i, LitLine) THEN Absent
    ELSE LET g1 == i + Len(LitLine)
             n1 == DigitRun(s, g1)
             g2 == g1 + n1 + Len(LitAtCharacter)
             n2 == DigitRun(s, g2)
         IN  IF n1 >= 1 /\ HasLiteralAt(s, g1 + n1, LitAtCharacter) /\ n2 >= 1
             THEN <<SubSeq(s, g1, g1 + n1 - 1), SubSeq(s, g2, g2 + n2 - 1)>>
             ELSE Absent

\* the leftmost match of the regex at or after position i, or Absent
RECURSIVE SearchFrom(_, _)
SearchFrom(s, i) ==
    IF i > Len(s) THEN Absent
    ELSE IF RegexMatchAt(s, i) # Absent THEN RegexMatchAt(s, i)
    ELSE SearchFrom(s, i + 1)

\* SURREALQL_SYNTAX_REGEX.search(message)
RegexSearch(s) == SearchFrom(s, 1)

\* the other group of the match
SyntaxErrorFieldSwapped(message, g) ==
    LET match == RegexSearch(message)
    IN  IF match # Absent THEN Some(ParseInt(match[3 - g])) ELSE Absent

\* "line or int(match.group(g)) if match else None"; _send passes no line and
\* no index keyword, so the left operand of "or" is None
SyntaxErrorField(message, g) ==
    LET match == RegexSearch(message)
    IN  IF match # Absent THEN Some(ParseInt(match[g])) ELSE Absent

\* SurrealQLSyntaxError(message, query): the exception's attributes
SurrealQLSyntaxError(message, query) ==
    [message |-> message, query |-> query,
     line |-> SyntaxErrorField(message, 1),
     index |-> SyntaxErrorField(message, 2)]

\* error messages the server sends with a syntax error
MsgParseError == <<"P", "a", "r", "s", "e", " ", "e", "r", "r", "o", "r", " ", "a", "t", " ">>
MsgTail == <<" ", "w", "h", "e", "n">>

\* "<prefix>line <l> at character <c><suffix>"
MkMessage(prefix, l, c, suffix) ==
    prefix \o LitLine \o FormatInt(l) \o LitAtCharacter \o FormatInt(c) \o suffix

MsgPrefixes == {<< >>, MsgParseError}
MsgSuffixes == {<< >>, MsgTail}
MsgLines == {2, 10}
MsgChars == {5, 0}

PatternMessages ==
    {MkMessage(p, l, c, s) : p \in MsgPrefixes, l \in MsgLines, c \in MsgChars, s \in MsgSuffixes}

\* messages without the pattern: no digits after "line ", or no " at character "
PlainMessages ==
    {MsgParseError, MsgParseError \o LitLine \o LitAtCharacter \o <<"5">>,
     LitLine \o <<"2">> \o MsgTail}

AllMessages == PatternMessages \cup PlainMessages

\* the messages the server of Spec chooses from
FewMessages == {MkMessage(MsgParseError, 2, 5, << >>)}

(***************************************************************************)
(* State.                                                                  *)
(***************************************************************************)
VARIABLES
    counter,      \* SurrealClient._counter
    wsExists,     \* hasattr(self, "_ws")
    wsConnected,  \* self._ws.connected
    recvThread,   \* self._receive_thread: "unstarted", "alive", "finished", "crashed"
    slots,        \* self._queue: request id -> FIFO of responses put for it
    namespace,    \* self._namespace
    database,     \* self._database
    toServer,     \* request frames written to the websocket
    fromServer,   \* response frames on their way to recv(), oldest first
    peerClosed,   \* the server has closed its end of the websocket
    answered,     \* requests the server has replied to
    junk,         \* frames the server has sent that answer no request
    pc,           \* where each caller thread is
    req,          \* the request each caller thread is working on
    outcome,      \* how each caller's last call ended
    ownerPc,      \* where the thread that calls connect() and disconnect() is
    ownerOutcome, \* how its last call ended
    emitted,      \* the bag of (kind, id) pairs _event_manager.emit was called with
    issued,       \* the ids returned by _count, in order
    lifecycle,    \* number of connect() and disconnect() calls made
    events,       \* _EventManager.events: kind -> set of callbacks
    eventQueue,   \* _EventManager._event_queue
    eventThread,  \* _EventManager._event_thread: "alive" or "crashed"
    invoked,      \* the callback invocations, in order
    emits,        \* the emit() calls on the event manager, in order
    registryCalls,\* number of add_event, remove_event and clear calls made
    registryLog,  \* the add_event, remove_event and clear calls made, in order
    eventError,   \* the exception of the last registry call, or "none"
    emitting,     \* per producer thread inside emit: the event and the callbacks to go
    handlerOn,    \* the thread that runs a callback which calls the client, or "none"
    connPc,       \* where each thread that runs connect() step by step is
    connOutcome,  \* how its connect() ended
    channels      \* number of create_connection calls made

clientVars == <<counter, wsExists, wsConnected, recvThread, slots, namespace, database,
                toServer, fromServer, peerClosed, answered, junk, pc, req, outcome,
                ownerPc, ownerOutcome, emitted, issued, lifecycle>>
auxVars == <<emitting, handlerOn, connPc, connOutcome, channels>>
managerVars == <<events, eventQueue, eventThread, invoked, emits, registryCalls, registryLog,
                 eventError>>
\* what connect() neither reads nor writes
besideConnect == <<counter, slots, namespace, database, toServer, fromServer, peerClosed,
                   answered, junk, pc, req, outcome, ownerPc, ownerOutcome, issued, lifecycle,
                   managerVars, emitting, handlerOn>>
eventVars == <<events, eventQueue, eventThread, invoked, emits, registryCalls, registryLog,
               eventError, auxVars>>
vars == <<clientVars, eventVars>>

(***************************************************************************)
(* The public operations and the request each sends.                       *)
(***************************************************************************)
Ops == {"ping", "query", "use", "login"}

\* the operations that return a SurrealResponse
DataOps == {"query", "find", "create", "update", "change", "modify", "delete"}

\* login called with a dict whose "user" or "pass" is the empty string
LoginEmptyDict == "login_empty_dict"

PublicOps == Ops \cup DataOps \cup {LoginEmptyDict}

\* the method name each operation passes to _send
OpMethod(op) ==
    CASE op = "ping" -> "ping"
      [] op = "query" -> "query"
      [] op = "use" -> "use"
      [] op \in {"login", LoginEmptyDict} -> "signin"
      [] op = "find" -> "select"
      [] OTHER -> op

\* the positional parameters each operation passes to _send
OpParams(op) ==
    CASE op = "ping" -> << >>
      [] op = "query" -> <<"sql", None>>
      [] op = "use" -> <<"ns", "db">>
      [] op = "login" -> <<"creds">>
      [] op = LoginEmptyDict -> <<"empty_creds">>
      [] op \in {"find", "delete"} -> <<"tid">>
      [] OTHER -> <<"tid", "data">>

NoRequest == [op |-> None, id |-> NoId, method |-> None, params |-> << >>, seq |-> 0, from |-> 0]

\* how a call ended: kind names the return or the exception; reply, id, for and
\* code are those of the response frame the call consumed
NoOutcome == [kind |-> "none", reply |-> None, id |-> NoId, for |-> 0, code |-> 0,
              message |-> Absent, line |-> Absent, index |-> Absent, query |-> None]

Outcome(kind) == [NoOutcome EXCEPT !.kind = kind]

\* Event(kind, ...).id as passed to emit
Emitted(log, kind, id) == log (+) SetToBag({[kind |-> kind, id |-> id]})
Emit(kind, id) == Emitted(emitted, kind, id)

ClientInit ==
    /\ counter = 0
    /\ wsExists = FALSE
    /\ wsConnected = FALSE
    /\ recvThread = "unstarted"
    /\ slots = << >>
    /\ namespace = None
    /\ database = None
    /\ toServer = {}
    /\ fromServer = << >>
    /\ peerClosed = FALSE
    /\ answered = {}
    /\ junk = 0
    /\ pc = [t \in Callers |-> "idle"]
    /\ req = [t \in Callers |-> NoRequest]
    /\ outcome = [t \in Callers |-> NoOutcome]
    /\ ownerPc = "idle"
    /\ ownerOutcome = "none"
    /\ emitted = EmptyBag
    /\ issued = << >>
    /\ lifecycle = 0

\* self.events = {}
EmptyRegistry == [k \in {} |-> {}]

\* the threads that call emit, and the threads that call connect(), at once
Producers == {1, 2}
Connectors == {1, 2}

NotEmitting == [data |-> 0, rest |-> << >>]

AuxInit ==
    /\ emitting = [p \in Producers |-> NotEmitting]
    /\ handlerOn = "none"
    /\ connPc = [o \in Connectors |-> "idle"]
    /\ connOutcome = [o \in Connectors |-> "none"]
    /\ channels = 0

EventInit ==
    /\ AuxInit
    /\ events = EmptyRegistry
    /\ eventQueue = << >>
    /\ eventThread = "alive"
    /\ invoked = << >>
    /\ emits = << >>
    /\ registryCalls = 0
    /\ registryLog = << >>
    /\ eventError = "none"

Init == ClientInit /\ EventInit

(***************************************************************************)
(* SurrealClientThread: connect and disconnect.                            *)
(***************************************************************************)
\* connect(): refuses while the receive thread is alive; opens the websocket
\* and starts the receive thread only when no websocket was ever created
Connect(maxCalls) ==
    /\ ownerPc = "idle"
    /\ lifecycle < maxCalls
    /\ lifecycle' = lifecycle + 1
    /\ IF recvThread = "alive"
       THEN /\ ownerOutcome' = "already_connected"
            /\ UNCHANGED <<wsExists, wsConnected, recvThread, emitted>>
       ELSE IF ~wsExists
       THEN /\ wsExists' = TRUE
            /\ wsConnected' = TRUE
            /\ recvThread' = "alive"
            /\ emitted' = Emit("connected", SentinelId)
            /\ ownerOutcome' = "connected"
       ELSE /\ ownerOutcome' = "returned_none"
            /\ UNCHANGED <<wsExists, wsConnected, recvThread, emitted>>
    /\ UNCHANGED <<eventVars, counter, slots, namespace, database, toServer, fromServer, peerClosed,
                   answered, junk, pc, req, outcome, ownerPc, issued>>

\* the websocket attribute alone
IsOpenUnchecked == wsExists

\* hasattr(self, "ws") and self.ws.connected
IsOpen == wsExists /\ wsConnected

\* disconnect() up to the join: closes the websocket, or raises "Not connected"
Disconnect(maxCalls) ==
    /\ ownerPc = "idle"
    /\ lifecycle < maxCalls
    /\ lifecycle' = lifecycle + 1
    /\ IF IsOpen
       THEN /\ wsConnected' = FALSE
            /\ ownerPc' = "joining"
            /\ ownerOutcome' = "none"
       ELSE /\ ownerOutcome' = "not_connected"
            /\ UNCHANGED <<wsConnected, ownerPc>>
    /\ UNCHANGED <<eventVars, counter, wsExists, recvThread, slots, namespace, database, toServer,
                   fromServer, peerClosed, answered, junk, pc, req, outcome, emitted, issued>>

\* a join that does not wait
JoinedAlways == TRUE

\* self._receive_thread.join() returns when the receive thread has ended
Joined == recvThread # "alive"

\* disconnect() from the join on: waits for the receive thread, emits DISCONNECTED
DisconnectJoin ==
    /\ ownerPc = "joining"
    /\ Joined
    /\ emitted' = Emit("disconnected", SentinelId)
    /\ ownerPc' = "idle"
    /\ ownerOutcome' = "disconnected"
    /\ UNCHANGED <<eventVars, counter, wsExists, wsConnected, recvThread, slots, namespace, database,
                   toServer, fromServer, peerClosed, answered, junk, pc, req, outcome, issued,
                   lifecycle>>

(***************************************************************************)
(* SurrealClientThread._count and _send, and the operations built on them. *)
(***************************************************************************)
\* the counter left as it was
CountValueStale(c) == c

\* _count, under self._lock: self._counter += 1
CountValue(c) == c + 1

\* the slot map left as it was
WithoutSlot(map, id) == map

\* the slot map with a fresh queue.Queue() under id
WithSlot(map, id) == [i \in DOMAIN map \cup {id} |-> IF i = id THEN << >> ELSE map[i]]

\* the start of an operation up to the registration of its slot: login emits
\* LOGIN first; then _count() and self._queue[request.id] = queue.Queue()
CallStart(t, op) ==
    /\ pc[t] = "idle"
    /\ Len(issued) < MaxRequests
    /\ counter' = CountValue(counter)
    /\ issued' = Append(issued, counter')
    /\ req' = [req EXCEPT ![t] = [op |-> op, id |-> counter', method |-> OpMethod(op),
                                  params |-> OpParams(op), seq |-> Len(issued) + 1,
                                  from |-> t]]
    /\ slots' = WithSlot(slots, counter')
    /\ emitted' = IF OpMethod(op) = "signin" THEN Emit("login", SentinelId) ELSE emitted
    /\ pc' = [pc EXCEPT ![t] = "registered"]
    /\ outcome' = [outcome EXCEPT ![t] = NoOutcome]
    /\ UNCHANGED <<eventVars, wsExists, wsConnected, recvThread, namespace, database, toServer,
                   fromServer, peerClosed, answered, junk, ownerPc, ownerOutcome, lifecycle>>

\* self._ws.send(json_dumps(request)): AttributeError when connect() never set
\* self._ws; the websocket raises when it is closed; on a websocket whose peer
\* has gone it raises or writes into the void
Send(t) ==
    /\ pc[t] = "registered"
    /\ \/ /\ wsExists /\ wsConnected
          /\ toServer' = toServer \cup {req[t]}
          /\ pc' = [pc EXCEPT ![t] = "waiting"]
          /\ UNCHANGED outcome
       \/ /\ ~(wsExists /\ wsConnected) \/ peerClosed
          /\ outcome' = [outcome EXCEPT ![t] =
                             Outcome(IF wsExists THEN "send_failed" ELSE "attribute_error")]
          /\ pc' = [pc EXCEPT ![t] = "idle"]
          /\ UNCHANGED toServer
    /\ UNCHANGED <<eventVars, counter, wsExists, wsConnected, recvThread, slots, namespace, database,
                   fromServer, peerClosed, answered, junk, req, ownerPc, ownerOutcome, emitted,
                   issued, lifecycle>>

\* how _send ends for the response taken from the caller's queue
SendResult(request, response) ==
    LET got == [NoOutcome EXCEPT !.reply = response.kind, !.id = response.id,
                                 !.for = response.for, !.code = response.code]
    IN  IF response.kind = "none" THEN Outcome("response_none")
        ELSE IF response.kind = "error"
        THEN IF response.code = SyntaxErrorCode
             THEN IF Len(request.params) = 0
                  THEN [got EXCEPT !.kind = "index_error"]
                  ELSE LET err == SurrealQLSyntaxError(response.message, request.params[1])
                       IN  [got EXCEPT !.kind = "syntax", !.message = err.message,
                                       !.query = err.query, !.line = err.line,
                                       !.index = err.index]
             ELSE [got EXCEPT !.kind = "ws_error", !.message = response.message]
        ELSE [got EXCEPT !.kind = "returned"]

\* the ERROR events _send emits before it raises
SendEmits(request, result, log) ==
    IF result.kind = "response_none" THEN Emitted(log, "error", SentinelId)
    ELSE IF result.kind \in {"syntax", "ws_error"}
    THEN Emitted(log, "error", request.id)
    ELSE log

\* what the operation makes of the pair _send returned: ping, login and use hand
\* on the result; the data operations build SurrealResponse(id=..., result=...),
\* and the dataclass has no field called result
OpResult(op, result) ==
    IF result.kind # "returned" THEN result
    ELSE IF op \in DataOps THEN [result EXCEPT !.kind = "type_error"]
    ELSE [result EXCEPT !.kind = "ok"]

\* the events of the operation emitted whatever _send did
OpEmitsAlways(op, result, log) ==
    IF OpMethod(op) = "signin" THEN Emitted(log, "logged_in", SentinelId)
    ELSE IF op = "use" THEN Emitted(log, "use", result.id)
    ELSE log

\* the events the operation emits after _send returned
OpEmits(op, result, log) ==
    IF result.kind # "returned" THEN log
    ELSE IF OpMethod(op) = "signin" THEN Emitted(log, "logged_in", SentinelId)
    ELSE IF op = "use" THEN Emitted(log, "use", result.id)
    ELSE log

\* the queue with its first item left in it
AfterGetKept(q) == q

\* the queue after get() took its first item
AfterGet(q) == Tail(q)

\* self._queue[request.id].get() and the rest of the operation
Get(t) ==
    /\ pc[t] = "waiting"
    /\ req[t].id \in DOMAIN slots
    /\ slots[req[t].id] # << >>
    /\ LET response == Head(slots[req[t].id])
           result == SendResult(req[t], response)
       IN  /\ slots' = [slots EXCEPT ![req[t].id] = AfterGet(@)]
           /\ outcome' = [outcome EXCEPT ![t] = OpResult(req[t].op, result)]
           /\ emitted' = OpEmits(req[t].op, result, SendEmits(req[t], result, emitted))
    /\ pc' = [pc EXCEPT ![t] = "idle"]
    /\ UNCHANGED <<eventVars, counter, wsExists, wsConnected, recvThread, namespace, database, toServer,
                   fromServer, peerClosed, answered, junk, req, ownerPc, ownerOutcome, issued,
                   lifecycle>>

\* LoginParams(username, password) with an empty field: __post_init__ raises
\* ValueError where the caller builds the credentials, before login is called
LoginParamsRejected(t) ==
    /\ pc[t] = "idle"
    /\ outcome[t].kind # "value_error"
    /\ outcome' = [outcome EXCEPT ![t] = Outcome("value_error")]
    /\ UNCHANGED <<eventVars, counter, wsExists, wsConnected, recvThread, slots, namespace, database,
                   toServer, fromServer, peerClosed, answered, junk, pc, req, ownerPc,
                   ownerOutcome, emitted, issued, lifecycle>>

(***************************************************************************)
(* The server and the websocket.                                           *)
(***************************************************************************)
Frame(id, kind, code, message, for) ==
    [id |-> id, kind |-> kind, code |-> code, message |-> message, for |-> for]

\* an id no request of this client carries
UnknownId == MaxRequests + 1

\* the replies to request r: a result, or an error with one of the codes
Replies(r, messages) ==
    {Frame(r.id, "result", 0, Absent, r.seq)}
    \cup {Frame(r.id, "error", SyntaxErrorCode, m, r.seq) : m \in messages}
    \cup {Frame(r.id, "error", OtherErrorCode, MsgParseError, r.seq)}

\* frames that answer no outstanding request, by kind: a reply with an id nobody
\* sent, a second reply to an answered request, an error without id, an error
\* with an id nobody sent, an envelope with neither id nor error, a frame that
\* is no JSON, an empty frame
JunkKinds == {"unknown_id", "duplicate", "error_no_id", "error_unknown_id", "push",
              "malformed", "empty"}

JunkFrames(kind) ==
    CASE kind = "unknown_id" -> {Frame(UnknownId, "result", 0, Absent, 0)}
      [] kind = "duplicate" ->
            {Frame(r.id, "result", 0, Absent, r.seq) : r \in {x \in toServer : x.seq \in answered}}
      [] kind = "error_no_id" -> {Frame(NoId, "error", OtherErrorCode, MsgParseError, 0)}
      [] kind = "error_unknown_id" ->
            {Frame(UnknownId, "error", OtherErrorCode, MsgParseError, 0)}
      [] kind = "push" -> {Frame(NoId, "push", 0, Absent, 0)}
      [] kind = "malformed" -> {Frame(NoId, "malformed", 0, Absent, 0)}
      [] kind = "empty" -> {Frame(NoId, "empty", 0, Absent, 0)}

ServerReply(messages) ==
    /\ wsConnected /\ ~peerClosed
    /\ \E r \in toServer :
        /\ r.seq \notin answered
        /\ answered' = answered \cup {r.seq}
        /\ \E f \in Replies(r, messages) : fromServer' = Append(fromServer, f)
    /\ UNCHANGED <<eventVars, counter, wsExists, wsConnected, recvThread, slots, namespace, database,
                   toServer, peerClosed, junk, pc, req, outcome, ownerPc, ownerOutcome, emitted,
                   issued, lifecycle>>

ServerJunk(kinds) ==
    /\ wsConnected /\ ~peerClosed
    /\ junk < MaxJunk
    /\ junk' = junk + 1
    /\ \E k \in kinds : \E f \in JunkFrames(k) : fromServer' = Append(fromServer, f)
    /\ UNCHANGED <<eventVars, counter, wsExists, wsConnected, recvThread, slots, namespace, database,
                   toServer, peerClosed, answered, pc, req, outcome, ownerPc, ownerOutcome,
                   emitted, issued, lifecycle>>

PeerClose ==
    /\ wsConnected /\ ~peerClosed
    /\ peerClosed' = TRUE
    /\ UNCHANGED <<eventVars, counter, wsExists, wsConnected, recvThread, slots, namespace, database,
                   toServer, fromServer, answered, junk, pc, req, outcome, ownerPc,
                   ownerOutcome, emitted, issued, lifecycle>>

(***************************************************************************)
(* SurrealClientThread._receive_responses, the receive thread.             *)
(***************************************************************************)
\* the queue of the request counted last
SlotKeyLatest(f) == counter

\* self._queue[response["id"]]
SlotKey(f) == f.id

\* one turn of the loop "while self.ws.connected": the thread ends when the
\* websocket was closed locally; recv() raises when the peer has closed and
\* nothing is left to read; otherwise the next frame is handled
RecvFrame ==
    /\ recvThread = "alive"
    /\ \/ /\ ~wsConnected
          /\ recvThread' = "finished"
          /\ UNCHANGED <<wsConnected, fromServer, slots, emitted>>
       \/ /\ wsConnected /\ fromServer = << >> /\ peerClosed
          /\ wsConnected' = FALSE
          /\ recvThread' = "crashed"
          /\ UNCHANGED <<fromServer, slots, emitted>>
       \/ /\ wsConnected /\ fromServer # << >>
          /\ fromServer' = Tail(fromServer)
          /\ LET f == Head(fromServer)
             IN  IF f.kind = "empty"
                 THEN UNCHANGED <<recvThread, slots, emitted>>
                 ELSE IF f.kind = "malformed"
                 THEN recvThread' = "crashed" /\ UNCHANGED <<slots, emitted>>
                 ELSE IF f.id # NoId
                 THEN IF SlotKey(f) \in DOMAIN slots
                      THEN /\ slots' = [slots EXCEPT ![SlotKey(f)] = Append(@, f)]
                           /\ emitted' = Emit("received", f.id)
                           /\ UNCHANGED recvThread
                      ELSE recvThread' = "crashed" /\ UNCHANGED <<slots, emitted>>
                 ELSE IF f.kind = "error"
                 THEN /\ emitted' = Emit("error", NoId)
                      /\ recvThread' = "crashed"
                      /\ UNCHANGED slots
                 ELSE recvThread' = "crashed" /\ UNCHANGED <<slots, emitted>>
          /\ UNCHANGED wsConnected
    /\ UNCHANGED <<counter, wsExists, namespace, database, toServer, peerClosed, answered,
                   junk, pc, req, outcome, ownerPc, ownerOutcome, issued, lifecycle>>

\* the receive thread with an event manager whose callbacks stay out of the
\* client's way
Recv == RecvFrame /\ UNCHANGED eventVars

(***************************************************************************)
(* The client with its callers, receive thread and server.                 *)
(***************************************************************************)
CallerStep(t, ops) ==
    \/ \E op \in ops : CallStart(t, op)
    \/ Send(t)
    \/ Get(t)

CoreStep(callers, ops, messages, maxCalls) ==
    \/ Connect(maxCalls)
    \/ Disconnect(maxCalls)
    \/ DisconnectJoin
    \/ \E t \in callers : CallerStep(t, ops)
    \/ Recv
    \/ ServerReply(messages)
    \/ PeerClose

\* event.EventManager is read as event._EventManager, the only event manager
\* class that event.py defines.

\* two callers, the operations without and with parameters, a server that may
\* also send frames that answer nothing
Next ==
    \/ CoreStep(Callers, {"ping", "query"}, FewMessages, MaxCalls)
    \/ ServerJunk(JunkKinds)

Spec == Init /\ [][Next]_vars

\* connect() on thread o, statement by statement.
\* if self._receive_thread.is_alive(): raise WebSocketError(...)
ConnectCheck(o) ==
    /\ connPc[o] = "idle"
    /\ IF recvThread = "alive"
       THEN /\ connPc' = [connPc EXCEPT ![o] = "done"]
            /\ connOutcome' = [connOutcome EXCEPT ![o] = "already_connected"]
       ELSE /\ connPc' = [connPc EXCEPT ![o] = "checked"]
            /\ UNCHANGED connOutcome
    /\ UNCHANGED <<besideConnect, wsExists, wsConnected, recvThread, emitted, channels>>

\* if not hasattr(self, "_ws"): with the attribute there, connect() returns None
ConnectHasattr(o) ==
    /\ connPc[o] = "checked"
    /\ IF wsExists
       THEN /\ connPc' = [connPc EXCEPT ![o] = "done"]
            /\ connOutcome' = [connOutcome EXCEPT ![o] = "returned_none"]
       ELSE /\ connPc' = [connPc EXCEPT ![o] = "opening"]
            /\ UNCHANGED connOutcome
    /\ UNCHANGED <<besideConnect, wsExists, wsConnected, recvThread, emitted, channels>>

\* self._ws = create_connection(self.url)
ConnectOpen(o) ==
    /\ connPc[o] = "opening"
    /\ channels' = channels + 1
    /\ wsExists' = TRUE
    /\ wsConnected' = TRUE
    /\ connPc' = [connPc EXCEPT ![o] = "opened"]
    /\ UNCHANGED <<besideConnect, recvThread, emitted, connOutcome>>

\* self._receive_thread.start(): a Thread that was started before raises
\* RuntimeError
ConnectStart(o) ==
    /\ connPc[o] = "opened"
    /\ IF recvThread = "unstarted"
       THEN /\ recvThread' = "alive"
            /\ connPc' = [connPc EXCEPT ![o] = "started"]
            /\ UNCHANGED connOutcome
       ELSE /\ connPc' = [connPc EXCEPT ![o] = "done"]
            /\ connOutcome' = [connOutcome EXCEPT ![o] = "runtime_error"]
            /\ UNCHANGED recvThread
    /\ UNCHANGED <<besideConnect, wsExists, wsConnected, emitted, channels>>

\* self._event_manager.emit(event.Events.CONNECTED, ...), and the return
ConnectEmit(o) ==
    /\ connPc[o] = "started"
    /\ emitted' = Emit("connected", SentinelId)
    /\ connPc' = [connPc EXCEPT ![o] = "done"]
    /\ connOutcome' = [connOutcome EXCEPT ![o] = "connected"]
    /\ UNCHANGED <<besideConnect, wsExists, wsConnected, recvThread, channels>>

\* two threads that call connect() on the new client at once, and a caller
\* that sends requests over what they open
RaceNext ==
    \/ \E o \in Connectors : ConnectCheck(o)
    \/ \E o \in Connectors : ConnectHasattr(o)
    \/ \E o \in Connectors : ConnectOpen(o)
    \/ \E o \in Connectors : ConnectStart(o)
    \/ \E o \in Connectors : ConnectEmit(o)
    \/ CallerStep(1, {"ping"})
    \/ Recv
    \/ ServerReply(FewMessages)
    \/ PeerClose

RaceSpec == Init /\ [][RaceNext]_vars

\* one caller, every connect/disconnect sequence of MaxLifeCalls calls
LifeNext ==
    \/ CoreStep({1}, {"ping"}, FewMessages, MaxLifeCalls)
    \/ ServerJunk(JunkKinds)

LifeSpec == Init /\ [][LifeNext]_vars

\* one caller, every operation, every message
SyntaxNext == CoreStep({1}, Ops, AllMessages, MaxCalls)

SyntaxSpec == Init /\ [][SyntaxNext]_vars

\* two callers that send queries to a server that answers or keeps silent
CloseNext == CoreStep(Callers, {"query"}, FewMessages, MaxCalls)

\* one caller, every public operation, login with empty credentials included
OpsNext ==
    \/ CoreStep({1}, PublicOps, FewMessages, MaxCalls)
    \/ LoginParamsRejected(1)

OpsSpec == Init /\ [][OpsNext]_vars

\* the frames that end the receive thread as such: no JSON, or an envelope
\* with neither id nor error
FatalKinds == {"malformed", "push"}

\* CloseNext with a server that may also send a fatal frame
FatalNext ==
    \/ CloseNext
    \/ ServerJunk(FatalKinds)

(***************************************************************************)
(* _EventManager: the registry, emit and the dispatch thread.              *)
(***************************************************************************)
\* the callbacks of the model: a function, a function that may raise, and a
\* coroutine function
Handlers == {"h1", "hraise", "hco"}
MayRaise(cb) == cb = "hraise"
IsCoroutine(cb) == cb \in {"hco", "hcocall"}

\* callbacks that call client.ping() the first time they run: a plain
\* function and a coroutine function
CallingHandlers == {"hcall", "hcocall"}

\* the thread of the callback's call, as a caller of the client
HandlerCaller == 2

\* the kinds callbacks are registered for, and the kinds that are emitted
RegKinds == {"received", "all"}
EmitKinds == {"received", "error"}

\* the enum member Events.RECEIVED, as against its value "received"
EnumReceived == "Events.RECEIVED"

\* a kind named by the string or by the enum member
KindForms == {"received", EnumReceived}

\* if isinstance(event, Events): event = event.value
EventValue(kind) == IF kind = EnumReceived THEN "received" ELSE kind

\* the callbacks registered under a key that names the kind, string or enum
RegisteredByName(map, kind) ==
    UNION {map[k] : k \in {x \in DOMAIN map : EventValue(x) = EventValue(kind)}}

Registered(map, kind) == IF kind \in DOMAIN map THEN map[kind] ELSE {}

RegistryCall(call, kind, cb) == [call |-> call, kind |-> kind, cb |-> cb]

\* the callback taken out when it is in the set, put in when it is not
Toggled(S, cb) == IF cb \in S THEN S \ {cb} ELSE S \cup {cb}

\* set.add(callback)
Added(S, cb) == S \cup {cb}

\* add_event(event, callback): self.events[event].add(callback)
AddEvent(kind, cb) ==
    /\ registryCalls < MaxRegistryCalls
    /\ registryCalls' = registryCalls + 1
    /\ registryLog' = Append(registryLog, RegistryCall("add_event", kind, cb))
    /\ events' = [k \in DOMAIN events \cup {kind} |->
                     IF k = kind THEN Added(Registered(events, k), cb) ELSE events[k]]
    /\ eventError' = "none"
    /\ UNCHANGED <<clientVars, eventQueue, eventThread, invoked, emits, auxVars>>

\* a removal that never misses
HasCallbackAlways(S, cb) == TRUE

\* set.remove(callback) finds the callback
HasCallback(S, cb) == cb \in S

\* remove_event(event, callback): set.remove raises KeyError for a callback
\* that is not in the set; an unknown kind raises ValueError; the callback is
\* then also taken out of the "all" set
RemoveEvent(kind, cb) ==
    /\ registryCalls < MaxRegistryCalls
    /\ registryCalls' = registryCalls + 1
    /\ registryLog' = Append(registryLog, RegistryCall("remove_event", kind, cb))
    /\ IF kind \in DOMAIN events
       THEN IF HasCallback(events[kind], cb)
            THEN LET removed == [events EXCEPT ![kind] = @ \ {cb}]
                 IN  /\ events' = IF "all" \in DOMAIN removed /\ cb \in removed["all"]
                                  THEN [removed EXCEPT !["all"] = @ \ {cb}]
                                  ELSE removed
                     /\ eventError' = "none"
            ELSE events' = events /\ eventError' = "KeyError"
       ELSE events' = events /\ eventError' = "ValueError"
    /\ UNCHANGED <<clientVars, eventQueue, eventThread, invoked, emits, auxVars>>

\* clear(): self.events.clear()
Clear ==
    /\ registryCalls < MaxRegistryCalls
    /\ registryCalls' = registryCalls + 1
    /\ registryLog' = Append(registryLog, RegistryCall("clear", None, None))
    /\ events' = EmptyRegistry
    /\ eventError' = "none"
    /\ UNCHANGED <<clientVars, eventQueue, eventThread, invoked, emits, auxVars>>

\* the orders in which a loop over a set may visit its members
Orders(S) == {o \in [1..Cardinality(S) -> S] : \A i, j \in 1..Cardinality(S) : o[i] = o[j] => i = j}

\* the queue with the item put first
PutFirst(q, item) == <<item>> \o q

\* self._event_queue.put(item)
Put(q, item) == Append(q, item)

Invocation(cb, data, on, raised) == [cb |-> cb, data |-> data, on |-> on, raised |-> raised]

\* the event queue after the loops of emit went over the callbacks in order
RECURSIVE Enqueued(_, _, _)
Enqueued(q, order, data) ==
    IF order = << >> THEN q
    ELSE Enqueued(IF IsCoroutine(Head(order)) THEN q
                  ELSE Put(q, [cb |-> Head(order), data |-> data]),
                  Tail(order), data)

\* the invocations emit itself made: run_until_complete(callback(data)) for
\* every coroutine function, on the thread that called emit
RECURSIVE RunInEmit(_, _, _)
RunInEmit(log, order, data) ==
    IF order = << >> THEN log
    ELSE RunInEmit(IF IsCoroutine(Head(order))
                   THEN Append(log, Invocation(Head(order), data, "emitter", FALSE))
                   ELSE log,
                   Tail(order), data)

\* emit(event, data): only when the kind has an entry in self.events, the
\* callbacks of the kind and then those of "all"
EmitRecord(kind, data) ==
    [kind |-> EventValue(kind), data |-> data,
     specific |-> Registered(events, EventValue(kind)),
     wild |-> IF EventValue(kind) \in DOMAIN events THEN Registered(events, "all") ELSE {},
     all |-> Registered(events, "all"),
     named |-> RegisteredByName(events, kind)]

EmitEvent(kind) ==
    /\ Len(emits) < MaxEmits
    /\ LET data == Len(emits) + 1
           specific == EmitRecord(kind, data).specific
           wild == EmitRecord(kind, data).wild
       IN  /\ emits' = Append(emits, EmitRecord(kind, data))
           /\ \E o1 \in Orders(specific), o2 \in Orders(wild) :
                 /\ eventQueue' = Enqueued(eventQueue, o1 \o o2, data)
                 /\ invoked' = RunInEmit(invoked, o1 \o o2, data)
    /\ UNCHANGED <<clientVars, events, eventThread, registryCalls, registryLog, eventError,
                   auxVars>>

\* one turn of _handle_events: event = self._event_queue.get(); event().  An
\* exception of the callback ends the thread.
Dispatch ==
    /\ eventThread = "alive"
    /\ eventQueue # << >>
    /\ eventQueue' = Tail(eventQueue)
    /\ \E raised \in (IF MayRaise(Head(eventQueue).cb) THEN BOOLEAN ELSE {FALSE}) :
          /\ invoked' = Append(invoked, Invocation(Head(eventQueue).cb,
                                                   Head(eventQueue).data, "worker", raised))
          /\ eventThread' = IF raised THEN "crashed" ELSE "alive"
    /\ UNCHANGED <<clientVars, events, emits, registryCalls, registryLog, eventError, auxVars>>

EventNext ==
    \/ \E kind \in RegKinds, cb \in Handlers : AddEvent(kind, cb)
    \/ \E kind \in RegKinds, cb \in Handlers : RemoveEvent(kind, cb)
    \/ Clear
    \/ \E kind \in EmitKinds : EmitEvent(kind)
    \/ Dispatch

EventSpec == Init /\ [][EventNext]_vars

\* the event manager with kinds named by the string and by the enum member
KindNext ==
    \/ \E kind \in KindForms, cb \in {"h1", "hco"} : AddEvent(kind, cb)
    \/ \E kind \in KindForms, cb \in {"h1", "hco"} : RemoveEvent(kind, cb)
    \/ \E kind \in KindForms : EmitEvent(kind)
    \/ Dispatch

KindSpec == Init /\ [][KindNext]_vars

\* emit up to its loops, on producer thread p: the callbacks it will go over
EmitBegin(p, kind) ==
    /\ emitting[p] = NotEmitting
    /\ Len(emits) < MaxEmits
    /\ LET data == Len(emits) + 1
       IN  /\ emits' = Append(emits, EmitRecord(kind, data))
           /\ \E o1 \in Orders(EmitRecord(kind, data).specific),
                 o2 \in Orders(EmitRecord(kind, data).wild) :
                 emitting' = [emitting EXCEPT ![p] = [data |-> data, rest |-> o1 \o o2]]
    /\ UNCHANGED <<clientVars, events, eventQueue, eventThread, invoked, registryCalls,
                   registryLog, eventError, handlerOn, connPc, connOutcome, channels>>

\* one turn of a loop of emit on producer thread p
EmitStep(p) ==
    /\ emitting[p].rest # << >>
    /\ LET cb == Head(emitting[p].rest)
           data == emitting[p].data
       IN  /\ eventQueue' = Enqueued(eventQueue, <<cb>>, data)
           /\ invoked' = RunInEmit(invoked, <<cb>>, data)
    /\ emitting' = [emitting EXCEPT ![p] = IF Len(@.rest) = 1 THEN NotEmitting
                                            ELSE [@ EXCEPT !.rest = Tail(@)]]
    /\ UNCHANGED <<clientVars, events, eventThread, emits, registryCalls, registryLog,
                   eventError, handlerOn, connPc, connOutcome, channels>>

\* two producer threads that emit at once; the registry is set up while no
\* emit is under way, with callbacks that are plain functions
ProducersNext ==
    \/ /\ \A p \in Producers : emitting[p] = NotEmitting
       /\ \E kind \in RegKinds, cb \in {"h1", "hraise"} : AddEvent(kind, cb)
    \/ \E p \in Producers : EmitBegin(p, "received")
    \/ \E p \in Producers : EmitStep(p)
    \/ Dispatch

ProducersSpec == Init /\ [][ProducersNext]_vars

\* the callback has its call to client.ping() still before it
CanCall == pc[HandlerCaller] = "idle" /\ outcome[HandlerCaller].kind = "none"

\* one turn of the receive loop with the client's event manager: emit(RECEIVED)
\* runs a coroutine callback on the receive thread itself, which is then
\* inside the callback until the callback returns, and queues a plain one
RecvEmit ==
    /\ handlerOn # "receiver"
    /\ RecvFrame
    /\ LET cbs == IF recvThread' = "alive" /\ emitted' # emitted
                  THEN Registered(events, "received") ELSE {}
       IN  /\ \E o \in Orders(cbs) :
                 /\ eventQueue' = Enqueued(eventQueue, o, Head(fromServer).id)
                 /\ invoked' = RunInEmit(invoked, o, Head(fromServer).id)
           /\ handlerOn' = IF CanCall /\ \E cb \in cbs : IsCoroutine(cb)
                           THEN "receiver" ELSE handlerOn
    /\ UNCHANGED <<events, eventThread, emits, registryCalls, registryLog, eventError, emitting,
                   connPc, connOutcome, channels>>

\* _handle_events takes a callback from the queue and calls it: the dispatch
\* thread is inside the callback until the callback returns
DispatchCall ==
    /\ eventThread = "alive"
    /\ eventQueue # << >>
    /\ handlerOn = "none"
    /\ eventQueue' = Tail(eventQueue)
    /\ invoked' = Append(invoked, Invocation(Head(eventQueue).cb, Head(eventQueue).data,
                                             "worker", FALSE))
    /\ handlerOn' = IF CanCall THEN "worker" ELSE "none"
    /\ UNCHANGED <<clientVars, events, eventThread, emits, registryCalls, registryLog, eventError,
                   emitting, connPc, connOutcome, channels>>

\* the callback calls client.ping(): _send up to the registration of the slot
HandlerCall ==
    /\ handlerOn # "none"
    /\ CanCall
    /\ CallStart(HandlerCaller, "ping")

\* client.ping() has returned or raised, and the callback returns
HandlerReturn ==
    /\ handlerOn # "none"
    /\ pc[HandlerCaller] = "idle"
    /\ outcome[HandlerCaller].kind # "none"
    /\ handlerOn' = "none"
    /\ UNCHANGED <<clientVars, managerVars, emitting, connPc, connOutcome, channels>>

\* a client with one callback for RECEIVED that calls the client: the
\* application registers it, connects and sends a request; the connection
\* stays open and the server answers
HandlerNext ==
    \/ /\ events = EmptyRegistry
       /\ \E cb \in CallingHandlers : AddEvent("received", cb)
    \/ Connect(1)
    \/ issued = << >> /\ CallStart(1, "ping")
    \/ \E t \in Callers : Send(t)
    \/ \E t \in Callers : Get(t)
    \/ HandlerCall
    \/ HandlerReturn
    \/ RecvEmit
    \/ DispatchCall
    \/ ServerReply(FewMessages)

HandlerSpec == Init /\ [][HandlerNext]_vars

\* Get(t) can be taken: the caller waits and its queue holds a response
GetEnabled(t) ==
    pc[t] = "waiting" /\ req[t].id \in DOMAIN slots /\ slots[req[t].id] # << >>

\* CloseNext with the scheduler's guarantee that a thread that can take a step
\* of its own takes it: the callers in _send (weak fairness of Get(t) is
\* written out with its enabling condition), the receive thread, the join
FairSpec ==
    /\ Init
    /\ [][CloseNext]_vars
    /\ \A t \in Callers : WF_vars(Send(t))
    /\ \A t \in Callers : []<>(~GetEnabled(t)) \/ []<><<Get(t)>>_vars
    /\ WF_vars(Recv)
    /\ WF_vars(DisconnectJoin)

\* RecvEmit can be taken
RecvEmitEnabled ==
    /\ handlerOn # "receiver"
    /\ recvThread = "alive"
    /\ ~wsConnected \/ fromServer # << >> \/ peerClosed

\* HandlerNext with the scheduler's guarantee that a thread that can take a
\* step of its own takes it
HandlerFairSpec ==
    /\ HandlerSpec
    /\ \A t \in Callers : WF_vars(Send(t))
    /\ \A t \in Callers : []<>(~GetEnabled(t)) \/ []<><<Get(t)>>_vars
    /\ []<>(~RecvEmitEnabled) \/ []<><<RecvEmit>>_vars
    /\ WF_vars(DispatchCall)
    /\ WF_vars(HandlerCall)
    /\ WF_vars(HandlerReturn)

\* FatalNext under the same scheduling
FatalFairSpec ==
    /\ Init
    /\ [][FatalNext]_vars
    /\ \A t \in Callers : WF_vars(Send(t))
    /\ \A t \in Callers : []<>(~GetEnabled(t)) \/ []<><<Get(t)>>_vars
    /\ WF_vars(Recv)
    /\ WF_vars(DisconnectJoin)

(***************************************************************************)
(* Properties.                                                             *)
(***************************************************************************)
\* the outcomes of a call that consumed a response frame
ReplyOutcomes == {"ok", "type_error", "syntax", "index_error", "ws_error"}

Outstanding(t) == pc[t] \in {"registered", "waiting"}

\* C1: a caller's operation returns or raises only from the response frame
\* that carries the id of its own request and that the server wrote in answer
\* to that request, whatever the order of the replies; two requests that are
\* outstanding together, identical or not, carry different ids.
C1_NoCrossTalk ==
    /\ \A t \in Callers :
          outcome[t].kind \in ReplyOutcomes =>
              outcome[t].id = req[t].id /\ outcome[t].for = req[t].seq
    /\ \A t1, t2 \in Callers :
          (t1 # t2 /\ Outstanding(t1) /\ Outstanding(t2)) => req[t1].id # req[t2].id

\* two identical queries in flight together, the later one answered first
C1_Witness ==
    \E t1, t2 \in Callers :
        /\ req[t1].op = "query" /\ req[t2].op = "query"
        /\ req[t1].seq < req[t2].seq
        /\ pc[t1] = "waiting" /\ req[t1] \in toServer
        /\ pc[t2] = "idle" /\ outcome[t2].kind \in ReplyOutcomes
        /\ outcome[t2].id = req[t2].id

\* C2: the ids _count returns are strictly increasing in the order of the
\* calls, and no two requests written to the websocket carry the same id.
C2_IdsIncreaseAndNeverRepeat ==
    /\ \A i, j \in DOMAIN issued : i < j => issued[i] < issued[j]
    /\ \A r1, r2 \in toServer : r1.seq # r2.seq => r1.id # r2.id

\* two requests of different callers are on the websocket
C2_Witness ==
    \E r1, r2 \in toServer : r1.from # r2.from /\ r1.id < r2.id

\* C3: a caller that waits for a reply when the connection is closed is
\* eventually unblocked and fails with the connection-closed error.
C3_ClosedUnblocksCallers ==
    \A t \in Callers :
        (pc[t] = "waiting" /\ ~wsConnected /\ slots[req[t].id] = << >>)
            ~> (pc[t] = "idle" /\ outcome[t].kind = "response_none")

\* C4: of two events of one kind emitted one after the other, every callback
\* registered for the kind at the first emit gets the first before the second:
\* no callback is invoked with a later event and then an earlier one, and none
\* is invoked with the second without having been invoked with the first.
C4_EmitOrderKept ==
    /\ \A i, j \in DOMAIN invoked :
          (i < j /\ invoked[i].cb = invoked[j].cb) => invoked[i].data <= invoked[j].data
    /\ \A j \in DOMAIN invoked : \A e1 \in DOMAIN emits :
          (/\ e1 < invoked[j].data
           /\ emits[e1].kind = emits[invoked[j].data].kind
           /\ invoked[j].cb \in emits[e1].specific)
              => \E i \in 1..(j - 1) : invoked[i].cb = invoked[j].cb /\ invoked[i].data = e1

\* the dispatch thread has invoked one callback with two events of one kind
C4_Witness ==
    \E i, j \in DOMAIN invoked :
        /\ i < j
        /\ invoked[i].cb = invoked[j].cb
        /\ invoked[i].on = "worker" /\ invoked[j].on = "worker"
        /\ invoked[i].data < invoked[j].data
        /\ emits[invoked[i].data].kind = emits[invoked[j].data].kind

\* C5: a callback that raises is contained: the dispatch thread keeps running.
C5_RaisingHandlerContained ==
    (\E i \in DOMAIN invoked : invoked[i].raised) => eventThread = "alive"

\* C6: connect() on a client whose websocket is open fails with the
\* already-connected error and changes nothing.
C6_SecondConnectRefused ==
    [][(Connect(MaxLifeCalls) /\ wsExists /\ wsConnected) =>
          /\ ownerOutcome' = "already_connected"
          /\ UNCHANGED <<wsExists, wsConnected, recvThread, slots, emitted, pc, req>>]_vars

\* C7: disconnect() on a client that has no open websocket (never connected, or
\* closed) fails with the not-connected error, emits nothing and changes nothing.
C7_DisconnectWhenNotConnected ==
    [][(Disconnect(MaxLifeCalls) /\ ~(wsExists /\ wsConnected)) =>
          /\ ownerOutcome' = "not_connected"
          /\ UNCHANGED <<counter, wsExists, wsConnected, recvThread, slots, namespace,
                         database, toServer, fromServer, peerClosed, answered, junk, pc, req,
                         outcome, ownerPc, emitted, issued>>]_vars

\* disconnect() has failed on a client that was connected and disconnected before
C7_Witness ==
    /\ ownerOutcome = "not_connected"
    /\ wsExists /\ ~wsConnected
    /\ BagIn([kind |-> "disconnected", id |-> SentinelId], emitted)

\* C8: connect() on a client without an open websocket, one that was connected
\* and disconnected before included, opens the websocket, starts the receive
\* thread, emits CONNECTED and leaves the client connected.
C8_ConnectOpensChannel ==
    [][(Connect(MaxLifeCalls) /\ ~(wsExists /\ wsConnected)) =>
          /\ wsExists' /\ wsConnected'
          /\ recvThread' = "alive"
          /\ emitted' = Emit("connected", SentinelId)
          /\ ownerOutcome' = "connected"]_vars

C10_ErrorsClassifiedByCode ==
    \A t \in Callers :
        outcome[t].reply = "error" =>
            IF outcome[t].code = SyntaxErrorCode
            THEN /\ outcome[t].kind = "syntax"
                 /\ req[t].op = "query" => outcome[t].query = "sql"
            ELSE outcome[t].kind = "ws_error"

\* C11: every callback runs on the dispatch thread, never on the thread that
\* called emit, whether it is a function or a coroutine function.
C11_HandlersRunOnWorker ==
    \A i \in DOMAIN invoked : invoked[i].on = "worker"

\* C12: a reply whose id has no slot is dropped and the receive thread goes on.
C12_UnknownIdDropped ==
    [][(/\ Recv
        /\ wsConnected
        /\ fromServer # << >>
        /\ Head(fromServer).id # NoId
        /\ Head(fromServer).id \notin DOMAIN slots) => recvThread' = "alive"]_vars

\* C13: when a fatal frame has ended the receive thread on an open connection,
\* every caller that waits for a reply is eventually unblocked.
C13_FatalFrameDrains ==
    \A t \in Callers :
        (pc[t] = "waiting" /\ recvThread = "crashed" /\ wsConnected /\ ~peerClosed)
            ~> (pc[t] = "idle")

\* C14: a caller that waits for a reply does not wait forever while the
\* connection stays open: its wait ends (with a timeout, if with nothing else).
C14_WaitTimesOut ==
    \A t \in Callers :
        (pc[t] = "waiting") ~> (pc[t] = "idle" \/ ~wsConnected \/ peerClosed)

\* C15: login with empty credentials gets no request id, registers no slot and
\* sends no frame: no request is ever built from empty credentials.
C15_EmptyCredentialsStayLocal ==
    /\ \A t \in Callers : req[t].params # OpParams(LoginEmptyDict)
    /\ \A r \in toServer : r.params # OpParams(LoginEmptyDict)

Copies(kind, id, log) == CopiesIn([kind |-> kind, id |-> id], log)

SemanticKinds == {"logged_in", "use"}

\* C16: LOGIN is emitted before the signin frame is sent; LOGGED_IN and USE are
\* emitted only by the step in which the operation takes the success reply to
\* its own request, and a call that ends otherwise emits neither.
C16_SemanticEventsBracketRequest ==
    [][/\ Copies("login", SentinelId, emitted')
              >= Cardinality({r \in toServer' : r.method = "signin"})
       /\ \A e \in BagToSet(emitted') :
             (e.kind \in SemanticKinds /\ CopiesIn(e, emitted') > CopiesIn(e, emitted)) =>
                 \E t \in Callers :
                     /\ pc[t] = "waiting" /\ pc'[t] = "idle"
                     /\ outcome'[t].reply = "result" /\ outcome'[t].id = req[t].id
                     /\ req[t].method = (IF e.kind = "logged_in" THEN "signin" ELSE "use")
       /\ \A t \in Callers :
             (pc[t] # "idle" /\ pc'[t] = "idle" /\ outcome'[t].reply # "result") =>
                 \A e \in BagToSet(emitted') :
                     e.kind \in SemanticKinds => CopiesIn(e, emitted') = CopiesIn(e, emitted)]_vars

\* a login has succeeded and emitted LOGIN and LOGGED_IN, and a use has then
\* failed with an error reply and emitted no USE
C16_Witness ==
    /\ Copies("login", SentinelId, emitted) = 1
    /\ Copies("logged_in", SentinelId, emitted) = 1
    /\ \E t \in Callers :
          /\ req[t].op = "use" /\ pc[t] = "idle" /\ outcome[t].kind = "ws_error"
          /\ Copies("use", req[t].id, emitted) = 0

\* C17: after use(ns, db) got its success reply the client's namespace and
\* database are ns and db.
C17_UseSetsNamespace ==
    \A t \in Callers :
        (req[t].op = "use" /\ pc[t] = "idle" /\ outcome[t].kind = "ok") =>
            namespace = req[t].params[1] /\ database = req[t].params[2]

\* C18: a data operation that takes a success reply returns normally.
C18_SuccessReplyReturns ==
    \A t \in Callers :
        (req[t].op \in DataOps /\ pc[t] = "idle" /\ outcome[t].reply = "result") =>
            outcome[t].kind = "ok" /\ outcome[t].id = req[t].id

\* C19: every id on the websocket, in a request or in the reply to one, has a
\* slot: the slot is registered before the frame is sent.
C19_SlotBeforeSend ==
    /\ \A r \in toServer : r.id \in DOMAIN slots
    /\ \A i \in DOMAIN fromServer :
          fromServer[i].for # 0 => fromServer[i].id \in DOMAIN slots

\* the reply to a request on the websocket lies in the request's slot
C19_Witness ==
    \E r \in toServer : r.id \in DOMAIN slots /\ slots[r.id] # << >> /\ Head(slots[r.id]).for = r.seq

\* C20: once a caller has taken the reply for id i, the slot map has no entry
\* for i.
C20_SlotDiscardedAfterUse ==
    \A t \in Callers :
        (pc[t] = "idle" /\ outcome[t].kind \in ReplyOutcomes) =>
            outcome[t].id \notin DOMAIN slots

\* C25: for each emitted event, the callbacks registered for the event's kind
\* are invoked before the callbacks registered for "all".
C25_SpecificBeforeWildcard ==
    \A i, j \in DOMAIN invoked :
        (/\ i < j
         /\ invoked[i].data = invoked[j].data
         /\ invoked[j].cb \in emits[invoked[j].data].specific \ emits[invoked[j].data].wild)
            => invoked[i].cb \notin emits[invoked[i].data].wild \ emits[invoked[i].data].specific

\* the number of times emit number e has handed the callback over: invocations
\* made and entries still in the event queue
Deliveries(cb, e, log, q) ==
    Cardinality({i \in DOMAIN log : log[i].cb = cb /\ log[i].data = e})
        + Cardinality({k \in DOMAIN q : q[k].cb = cb /\ q[k].data = e})

\* C26: a callback registered for "all" is handed every emitted event, whether
\* or not a callback is registered for the event's own kind.
C26_WildcardGetsEveryEvent ==
    \A e \in DOMAIN emits : \A cb \in emits[e].all :
        Deliveries(cb, e, invoked, eventQueue) >= 1

\* C27: add_event with a pair that is registered already leaves the registry
\* as it is, and a callback registered for a kind is handed each emitted event
\* of the kind once.
C27_DuplicateRegistrationNoOp ==
    [][/\ \A kind \in RegKinds, cb \in Handlers :
             (AddEvent(kind, cb) /\ kind \in DOMAIN events /\ cb \in events[kind])
                 => events' = events
       /\ \A e \in DOMAIN emits' : \A cb \in emits'[e].specific \ emits'[e].wild :
             Deliveries(cb, e, invoked', eventQueue') = 1]_vars

\* one pair was registered twice, and the callback was invoked once with the
\* one event of the kind
C27_Witness ==
    \E kind \in RegKinds, cb \in Handlers :
        /\ registryLog = <<RegistryCall("add_event", kind, cb), RegistryCall("add_event", kind, cb)>>
        /\ Len(emits) = 1 /\ emits[1].kind = kind /\ cb \in emits[1].specific
        /\ eventQueue = << >>
        /\ Deliveries(cb, 1, invoked, eventQueue) = 1

\* C28: remove_event with a pair that is not registered, for an unknown kind or
\* for a callback the kind does not have, raises and leaves the registry as it is.
C28_RemoveUnregisteredFails ==
    [][\A kind \in RegKinds, cb \in Handlers :
          (RemoveEvent(kind, cb) /\ ~(kind \in DOMAIN events /\ cb \in events[kind]))
              => (eventError' \in {"KeyError", "ValueError"} /\ events' = events)]_vars

\* a callback was removed from a kind that has another callback only
C28_Witness ==
    \E kind \in RegKinds, cb1, cb2 \in Handlers :
        /\ cb1 # cb2
        /\ registryLog = <<RegistryCall("add_event", kind, cb1),
                           RegistryCall("remove_event", kind, cb2)>>
        /\ eventError = "KeyError"
        /\ events[kind] = {cb1}

\* C21: a reply is delivered once, to the caller that sent the request: a call
\* takes one frame, out of the slot of its own id and carrying that id, and takes
\* it away; no other step takes a frame out of a slot; and what a call has
\* returned is not changed by frames that come later.
C21_ReplyDeliveredOnce ==
    [][/\ \A t \in Callers : (pc[t] = "idle" /\ pc'[t] = "idle") => outcome'[t] = outcome[t]
       /\ \A t \in Callers :
             (pc[t] = "waiting" /\ pc'[t] = "idle") =>
                 /\ slots'[req[t].id] = Tail(slots[req[t].id])
                 /\ outcome'[t].id = req[t].id /\ outcome'[t].for = req[t].seq
       /\ \A i \in DOMAIN slots :
             slots'[i] # slots[i] =>
                 \/ \E t \in Callers : pc[t] = "waiting" /\ pc'[t] = "idle" /\ req[t].id = i
                 \/ /\ fromServer # << >>
                    /\ slots'[i] = Append(slots[i], Head(fromServer))]_vars

\* a second reply to a request lies in the slot of the request, whose caller
\* has returned with the first
C21_Witness ==
    \E t \in Callers :
        /\ pc[t] = "idle" /\ outcome[t].kind \in ReplyOutcomes
        /\ outcome[t].id = req[t].id
        /\ slots[req[t].id] # << >>

\* C22: when an open connection has closed, by disconnect() or by the peer, the
\* receive thread stops and DISCONNECTED is emitted.
C22_CloseEmitsDisconnected ==
    (wsExists /\ ~wsConnected)
        ~> (recvThread # "alive" /\ Copies("disconnected", SentinelId, emitted) >= 1)

\* C23: a call that has taken the reply to its request has had RECEIVED emitted
\* for the request's id; when the reply was an error the call raised the error
\* classified by its code and ERROR was emitted for the request's id.
C23_RepliesEmitReceivedAndError ==
    \A t \in Callers :
        (pc[t] = "idle" /\ outcome[t].reply \in {"result", "error"}) =>
            /\ Copies("received", req[t].id, emitted) >= 1
            /\ outcome[t].reply = "error" =>
                  /\ outcome[t].kind \in {"syntax", "ws_error"}
                  /\ Copies("error", req[t].id, emitted) >= 1

\* C24: an error frame that carries no id of an outstanding request changes no
\* caller's outcome and is emitted as an ERROR event.
C24_UnmatchedErrorOnlyEmitted ==
    [][(/\ Recv
        /\ wsConnected
        /\ fromServer # << >>
        /\ Head(fromServer).kind = "error"
        /\ ~\E t \in Callers : Outstanding(t) /\ req[t].id = Head(fromServer).id)
           => /\ outcome' = outcome
              /\ \E e \in BagToSet(emitted') :
                    e.kind = "error" /\ CopiesIn(e, emitted') > CopiesIn(e, emitted)]_vars

\* C29: while the websocket is open the receive thread is running.
C29_OneReceiveThreadWhileOpen ==
    IsOpen => recvThread = "alive"

\* C30: an operation called on a client without an open websocket fails with a
\* connection error and sends no frame.
C30_NotConnectedFailsFast ==
    [][\A t \in Callers :
          (Send(t) /\ ~IsOpen) =>
              /\ outcome'[t].kind = "send_failed"
              /\ pc'[t] = "idle"
              /\ toServer' = toServer]_vars

\* C32: the invocations that belong to one emitted event are contiguous in the
\* order of dispatch, with two threads that emit at once too.
C32_EventInvocationsContiguous ==
    \A i, j, k \in DOMAIN invoked :
        (i < j /\ j < k /\ invoked[i].data = invoked[k].data)
            => invoked[j].data = invoked[i].data

\* C33: a callback registered for a kind, by the kind's string or by the Events
\* member, is handed every event emitted for the kind, by string or by member.
C33_KindNamesAgree ==
    \A e \in DOMAIN emits : \A cb \in emits[e].named :
        Deliveries(cb, e, invoked, eventQueue) >= 1

\* C36: once remove_event(kind, callback) has returned, the callback is not
\* invoked for an event of the kind, one emitted before the removal included.
C36_RemovedHandlerNotInvoked ==
    [][\A kind \in RegKinds, cb \in Handlers :
          (/\ registryLog # << >>
           /\ registryLog[Len(registryLog)] = RegistryCall("remove_event", kind, cb)
           /\ eventError = "none")
              => ~(/\ Dispatch
                   /\ Head(eventQueue).cb = cb
                   /\ emits[Head(eventQueue).data].kind = kind)]_vars

\* C37: remove_event(kind, callback) leaves the callbacks of every other kind,
\* "all" included, as they are.
C37_RemoveLeavesOtherKinds ==
    [][\A kind \in RegKinds, cb \in Handlers :
          RemoveEvent(kind, cb) =>
              \A k \in DOMAIN events \ {kind} : events'[k] = events[k]]_vars

\* C31: a connect() that returns after a disconnect() leaves no slot of a
\* request of the connection before in the map of slots.
C31_ReconnectStartsWithoutOldSlots ==
    [][(/\ Connect(MaxLifeCalls)
        /\ Copies("disconnected", SentinelId, emitted) >= 1
        /\ ownerOutcome' # "already_connected")
           => \A r \in toServer : r.id \notin DOMAIN slots']_vars

\* C38: once disconnect() has returned the receive thread has ended: from then
\* on no frame is put into a slot and no RECEIVED is emitted, so DISCONNECTED
\* comes after the last RECEIVED.
C38_DisconnectEndsReceiving ==
    [][/\ Copies("disconnected", SentinelId, emitted') >= 1 => recvThread' # "alive"
       /\ Copies("disconnected", SentinelId, emitted) >= 1 =>
             /\ recvThread # "alive"
             /\ \A i \in DOMAIN slots' :
                   Len(slots'[i]) <= (IF i \in DOMAIN slots THEN Len(slots[i]) ELSE 0)
             /\ \A id \in 1..UnknownId :
                   Copies("received", id, emitted') = Copies("received", id, emitted)]_vars

\* disconnect() has returned after a reply was received, with a request
\* that still waits and a frame for it that was never read
C38_Witness ==
    /\ Copies("disconnected", SentinelId, emitted) >= 1
    /\ \E id \in 1..UnknownId : Copies("received", id, emitted) >= 1
    /\ fromServer # << >>
    /\ \E t \in Callers : pc[t] = "waiting" /\ Head(fromServer).id = req[t].id

\* C35: of two threads that call connect() at once on the new client one
\* opens the one channel and starts the one receive thread, and the other
\* call fails with the already-connected error.
C35_OneConnectWins ==
    /\ channels <= 1
    /\ (/\ \A o \in Connectors : connPc[o] = "done"
        /\ recvThread = "alive")
           => {connOutcome[o] : o \in Connectors} = {"connected", "already_connected"}

\* C34: the call a callback makes to the client returns once the server has
\* answered it, whichever thread runs the callback.
C34_HandlerCallReturns ==
    (/\ pc[HandlerCaller] = "waiting"
     /\ \E i \in DOMAIN fromServer : fromServer[i].id = req[HandlerCaller].id)
        ~> (pc[HandlerCaller] = "idle")

====
